---- MODULE Spec2Model ----
(***************************************************************************)
(* A model of abb::rws::POCOClient (src/src/rws_poco_client.cpp): the      *)
(* HTTP exchange with its digest-auth retry and cookie store, the          *)
(* WebSocket connect and receive loop, and the two mutexes that guard      *)
(* them.  Threads call the public methods concurrently; every access to a  *)
(* shared member is one step, so the interleavings of the code are the     *)
(* behaviours of the model.                                                *)
(***************************************************************************)
EXTENDS Integers, Sequences, FiniteSets, TLC

\* ------------------------------------------------------------------ bounds
\* Most PING frames the peer delivers to one webSocketRecieveFrame call.
MaxPings == 2

\* Longest cookie string handed to extractAndStoreCookie on its own.
MaxCookieLen == 3

\* The client threads calling into one POCOClient: two, the least number
\* that interleaves any method with any other.
Threads == {"t1", "t2"}
NoThread == "none"

\* ------------------------------------------------- transport (Poco) values
\* WebSocket::FrameFlags / FrameOpcodes as used by the receive loop.
FRAME_FLAG_FIN == 128
FRAME_OP_BITMASK == 15
FRAME_OP_TEXT == 1
FRAME_OP_CLOSE == 8
FRAME_OP_PING == 9
FRAME_OP_PONG == 10
\* HTTPResponse::HTTPStatus values the exchange distinguishes.
HTTP_OK == 200
HTTP_UNAUTHORIZED == 401
HTTP_SWITCHING_PROTOCOLS == 101

\* flags & WebSocket::FRAME_OP_BITMASK (the mask is the low four bits).
Opcode(fl) == fl % (FRAME_OP_BITMASK + 1)

Methods == {"GET", "POST", "PUT", "DELETE"}
Contents == {"", "x=1"}
Payloads == {"hello", "bye"}
NullHandle == "null"
OpenHandle == "open"

\* Strings handed to extractAndStoreCookie, as sequences of characters:
\* HTTPCookie::toString() of the cookies of a response.
CookieA == <<"A", "=", "1", ";", "p">>
CookieB == <<"B", "=", "2">>
CookieC == <<"C", "=", "3", ";", "s">>
SetCookieLists == {<< >>, <<CookieA>>, <<CookieB, CookieC>>}

\* What the server may answer to one HTTP request.
Responses ==
  [status : {HTTP_OK, HTTP_UNAUTHORIZED}, cookies : SetCookieLists, content : {"body"}]

\* Frames the peer may deliver: flags (FIN | opcode) and payload.
Frames ==
  [flags : {FRAME_FLAG_FIN + FRAME_OP_TEXT, FRAME_FLAG_FIN + FRAME_OP_CLOSE,
            FRAME_FLAG_FIN + FRAME_OP_PING, FRAME_FLAG_FIN + FRAME_OP_PONG},
   payload : Payloads]

\* Exceptions of the transport, with the text displayText() gives.
TimeoutException == [kind |-> "Timeout", text |-> "Timeout"]
NetException == [kind |-> "Net", text |-> "Net Exception"]
WebSocketException == [kind |-> "WebSocket", text |-> "WebSocket Exception"]
NoException == [kind |-> "none", text |-> ""]
HTTPExceptions == {TimeoutException, NetException}
WSExceptions == {TimeoutException, WebSocketException, NetException}

\* ------------------------------------------------------------------- state
VARIABLES
  cookies_,          \* the cookie store: a set of <<name, value>>
  client_session_,   \* the HTTP client session: "connected" or "disconnected"
  p_websocket_,      \* the WebSocket handle: NullHandle or OpenHandle
  http_mutex_,       \* owner of http_mutex_, or NoThread
  websocket_mutex_,  \* owner of websocket_mutex_, or NoThread
  pc,                \* per thread: where it is in the method it called
  args,              \* per thread: the method called and its arguments
  request,           \* per thread: the HTTPRequest object of the call
  result,            \* per thread: the POCOResult being built / returned
  flags,             \* per thread: local flags of the receive loop
  content,           \* per thread: local content of the receive loop
  sent,              \* per thread: requests this call put on the wire
  received,          \* per thread: responses this call read off the wire
  frames,            \* per thread: frames this call read off the channel
  pongs,             \* per thread: PONG frames this call sent
  raised,            \* per thread: the exception this call caught, if any
  applied            \* a helper function applied on its own: input and output

vars == <<cookies_, client_session_, p_websocket_, http_mutex_, websocket_mutex_,
          pc, args, request, result, flags, content, sent, received, frames,
          pongs, raised, applied>>

shared == <<cookies_, client_session_, p_websocket_>>
locks == <<http_mutex_, websocket_mutex_>>
wsLocals == <<flags, content, frames, pongs>>

\* ------------------------------------------------------------ POCOResult
\* A default-constructed POCOResult.
DefaultResult ==
  [status |-> "UNKNOWN",
   exception_message |-> "",
   http |-> [request |-> [method |-> "", uri |-> "", content |-> ""],
             response |-> [status |-> 0, header_info |-> << >>, content |-> ""]],
   websocket |-> [flags |-> 0, frame_content |-> ""]]

addHTTPRequestInfo(res, req, request_content) ==
  [res EXCEPT !.http.request =
     [method |-> req.method, uri |-> req.uri, content |-> request_content]]

\* A recording of the response that leaves the body out.
ResponseInfoWithoutBody(res, resp, response_content) ==
  [res EXCEPT !.http.response =
     [status |-> resp.status, header_info |-> resp.cookies, content |-> ""]]

addHTTPResponseInfo(res, resp, response_content) ==
  [res EXCEPT !.http.response =
     [status |-> resp.status, header_info |-> resp.cookies,
      content |-> response_content]]

\* A recording of the frame that records nothing.
NoFrameInfo(res, fl, frame_content) == res

addWebSocketFrameInfo(res, fl, frame_content) ==
  [res EXCEPT !.websocket = [flags |-> fl, frame_content |-> frame_content]]

\* The catch clauses of makeHTTPRequest.
CatchHTTP(res, e) ==
  IF e.kind = "Timeout"
  THEN [res EXCEPT !.status = "EXCEPTION_POCO_TIMEOUT", !.exception_message = e.text]
  ELSE [res EXCEPT !.status = "EXCEPTION_POCO_NET", !.exception_message = e.text]

\* The catch clauses of webSocketConnect and webSocketRecieveFrame.
CatchWS(res, e) ==
  IF e.kind = "Timeout"
  THEN [res EXCEPT !.status = "EXCEPTION_POCO_TIMEOUT", !.exception_message = e.text]
  ELSE IF e.kind = "WebSocket"
  THEN [res EXCEPT !.status = "EXCEPTION_POCO_WEBSOCKET", !.exception_message = e.text]
  ELSE [res EXCEPT !.status = "EXCEPTION_POCO_NET", !.exception_message = e.text]

\* ----------------------------------------------------------- cookie store
\* std::string::npos, as the result of a failed find_first_of.
npos == -1
\* Largest size_t of the model: a negative difference of two positions wraps
\* to a count near it, far beyond the length of any string.
SIZE_MAX == 2147483647

\* cookie_string.find_first_of(c): 0-based position of the first c, or npos.
find_first_of(s, c) ==
  IF \E i \in 1..Len(s) : s[i] = c
  THEN (CHOOSE i \in 1..Len(s) : s[i] = c /\ \A j \in 1..(i - 1) : s[j] # c) - 1
  ELSE npos

\* Unsigned (size_t) value of a difference of two positions.
SizeT(d) == IF d >= 0 THEN d ELSE SIZE_MAX + d + 1

\* s.substr(pos, count) for pos <= size: count is clamped to the end.
substr(s, pos, count) ==
  SubSeq(s, pos + 1, IF count > Len(s) - pos THEN Len(s) ELSE pos + count)

\* extractAndStoreCookie: the store after parsing one cookie string.
extractAndStoreCookie(store, cookie_string) ==
  LET position_1 == find_first_of(cookie_string, "=")
      position_2 == find_first_of(cookie_string, ";")
  IN  IF position_1 # npos /\ position_2 # npos
      THEN LET name == substr(cookie_string, 0, position_1)
               value == substr(cookie_string, position_1 + 1,
                               SizeT(position_2 - (position_1 + 1)))
           IN  store \cup {<<name, value>>}
      ELSE store

\* The loop of authenticate over the cookies of the response.
RECURSIVE StoreCookies(_, _)
StoreCookies(store, temp_cookies) ==
  IF temp_cookies = << >>
  THEN store
  ELSE StoreCookies(extractAndStoreCookie(store, Head(temp_cookies)),
                    Tail(temp_cookies))

\* ------------------------------------------------------------ the request
\* A request that gets the form content type for POST only.
BuildRequestTypeForPostOnly(method, body, store) ==
  [method |-> method, uri |-> "/rw",
   cookies |-> store,
   contentLength |-> Len(body),
   contentType |-> IF method = "POST"
                   THEN "application/x-www-form-urlencoded" ELSE "",
   protocol |-> "",
   auth |-> FALSE]

\* The HTTPRequest makeHTTPRequest builds: cookies from the store,
\* Content-Length, and the form content type for POST or a non-empty body.
BuildRequest(method, body, store) ==
  [method |-> method, uri |-> "/rw",
   cookies |-> store,
   contentLength |-> Len(body),
   contentType |-> IF method = "POST" \/ body # ""
                   THEN "application/x-www-form-urlencoded" ELSE "",
   protocol |-> "",
   auth |-> FALSE]

\* The upgrade request webSocketConnect builds.
BuildUpgradeRequest(store) ==
  [method |-> "GET", uri |-> "/rw",
   cookies |-> store,
   contentLength |-> -1,
   contentType |-> "",
   protocol |-> "robapi2_subscription",
   auth |-> FALSE]

NoRequest == BuildRequest("", "", {})

\* An entry of the wire log: the request as sent, and the cookie store at
\* the moment of sending.
Wire(req, store) == [req |-> req, store |-> store]

\* -------------------------------------------------------------------- Init
\* No helper function has been applied on its own.
NoApplication == [fn |-> "", store |-> {}, cookie_string |-> << >>, out |-> {}]

NoArgs == [op |-> "", method |-> "", content |-> ""]

\* A POCOClient after construction, and no call on any thread.
InitClient ==
  /\ cookies_ = {}
  /\ client_session_ = "disconnected"
  /\ p_websocket_ = NullHandle
  /\ http_mutex_ = NoThread
  /\ websocket_mutex_ = NoThread
  /\ pc = [t \in Threads |-> "idle"]
  /\ args = [t \in Threads |-> NoArgs]
  /\ request = [t \in Threads |-> NoRequest]
  /\ result = [t \in Threads |-> DefaultResult]
  /\ flags = [t \in Threads |-> 0]
  /\ content = [t \in Threads |-> ""]
  /\ sent = [t \in Threads |-> << >>]
  /\ received = [t \in Threads |-> << >>]
  /\ frames = [t \in Threads |-> << >>]
  /\ pongs = [t \in Threads |-> << >>]
  /\ raised = [t \in Threads |-> NoException]

Init ==
  /\ InitClient
  /\ applied = NoApplication

\* A thread is at the instant of its return: pc is "done" in the state a
\* method returned in, and the return is the next step taken.
Returning == \E t \in Threads : pc[t] = "done"

\* Thread t is at label and may take its next step.
At(t, label) == pc[t] = label /\ ~Returning

\* A call starts: the arguments are bound.
StartCall(t, op, label, method, body) ==
  /\ At(t, "idle")
  /\ applied' = applied
  /\ pc' = [pc EXCEPT ![t] = label]
  /\ args' = [args EXCEPT ![t] = [op |-> op, method |-> method, content |-> body]]
  /\ UNCHANGED <<shared, locks, request, result, wsLocals, sent, received, raised>>

\* ------------------------------------------------------- the public verbs
httpGet(t) == StartCall(t, "makeHTTPRequest", "mh_lock", "GET", "")

httpPost(t) == \E body \in Contents : StartCall(t, "makeHTTPRequest", "mh_lock", "POST", body)

httpPut(t) == \E body \in Contents : StartCall(t, "makeHTTPRequest", "mh_lock", "PUT", body)

httpDelete(t) == StartCall(t, "makeHTTPRequest", "mh_lock", "DELETE", "")

CallWebSocketConnect(t) == StartCall(t, "webSocketConnect", "wc_lock", "", "")

CallWebSocketRecieveFrame(t) == StartCall(t, "webSocketRecieveFrame", "rf_lock", "", "")

\* ------------------------------------------------------------ the mutexes
\* A ScopedLock<Mutex> on http_mutex_ blocks a caller of makeHTTPRequest or
\* of webSocketConnect for as long as another thread owns the mutex.
HTTPUnlocked == TRUE
HTTPLockWaitsForReceive == http_mutex_ = NoThread /\ websocket_mutex_ = NoThread
HTTPLockFree == http_mutex_ = NoThread

\* A lock that is released on a return with status OK only.
UnlockOnSuccessOnly(t, res) == IF res.status = "OK" THEN NoThread ELSE t

\* The owner of a mutex after the return of the method whose ScopedLock held
\* it: the destructor unlocks on every path out of the method.
Unlock(t, res) == NoThread

\* A ScopedLock<Mutex> on websocket_mutex_ does the same for a caller of
\* webSocketRecieveFrame.
WebSocketLockFree == websocket_mutex_ = NoThread

\* ---------------------------------------------------------- makeHTTPRequest
\* ScopedLock<Mutex> lock(http_mutex_), then the request is built from the
\* cookie store.
MH_Lock(t) ==
  /\ At(t, "mh_lock")
  /\ applied' = applied
  /\ HTTPLockFree
  /\ http_mutex_' = t
  /\ request' = [request EXCEPT ![t] =
                   BuildRequest(args[t].method, args[t].content, cookies_)]
  /\ pc' = [pc EXCEPT ![t] = "mh_send"]
  /\ UNCHANGED <<shared, websocket_mutex_, args, result, wsLocals, sent, received, raised>>

\* An exchange that authenticates after every first response.
AlwaysAuthenticate(status) == "mh_auth"

\* Where makeHTTPRequest goes after the first response: into authenticate
\* on 401 Unauthorized, else to its end.
AfterFirstResponse(status) ==
  IF status = HTTP_UNAUTHORIZED THEN "mh_auth" ELSE "mh_fin"

\* A retry policy that authenticates again for as long as the answer is 401.
RetryWhileUnauthorized(status) == AfterFirstResponse(status)

\* Where makeHTTPRequest goes after the response to the retry: authenticate
\* returns whatever the status, and the exchange ends.
AfterRetryResponse(status) == "mh_fin"

\* The result once a response has been read: the request and response info
\* of sendAndReceive, and status OK when the try block is left.
Received(res, req, body, r, next) ==
  LET info == addHTTPResponseInfo(addHTTPRequestInfo(res, req, body), r, r.content)
  IN  IF next = "mh_fin" THEN [info EXCEPT !.status = "OK"] ELSE info

\* The first sendAndReceive of makeHTTPRequest: the request goes out, then
\* either the transport throws or a response is read into the result.
MH_Send(t) ==
  /\ At(t, "mh_send")
  /\ applied' = applied
  /\ sent' = [sent EXCEPT ![t] = Append(@, Wire(request[t], cookies_))]
  /\ \/ \E e \in HTTPExceptions, cs \in {"connected", "disconnected"} :
          /\ result' = [result EXCEPT ![t] =
               CatchHTTP(addHTTPRequestInfo(@, request[t], args[t].content), e)]
          /\ raised' = [raised EXCEPT ![t] = e]
          /\ client_session_' = cs
          /\ received' = received
          /\ pc' = [pc EXCEPT ![t] = "mh_fin"]
     \/ \E r \in Responses :
          /\ client_session_' = "connected"
          /\ raised' = raised
          /\ received' = [received EXCEPT ![t] = Append(@, r)]
          /\ result' = [result EXCEPT ![t] =
               Received(@, request[t], args[t].content, r,
                        AfterFirstResponse(r.status))]
          /\ pc' = [pc EXCEPT ![t] = AfterFirstResponse(r.status)]
  /\ UNCHANGED <<cookies_, p_websocket_, locks, args, request, wsLocals>>

\* The request authenticate re-sends: the same request object, with the
\* digest credentials added.
RetryRequest(req) == [req EXCEPT !.auth = TRUE]

\* An authenticate that keeps the cookies it finds.
KeptForRetry(store) == store

\* The cookie store after cookies_.clear() in authenticate.
ClearedForRetry(store) == {}

\* authenticate: clear the store, add the credentials, send again, and store
\* the cookies of the answer.
MH_Auth(t) ==
  /\ At(t, "mh_auth")
  /\ applied' = applied
  /\ request' = [request EXCEPT ![t] = RetryRequest(@)]
  /\ sent' = [sent EXCEPT ![t] =
                Append(@, Wire(request'[t], ClearedForRetry(cookies_)))]
  /\ \/ \E e \in HTTPExceptions, cs \in {"connected", "disconnected"} :
          /\ result' = [result EXCEPT ![t] =
               CatchHTTP(addHTTPRequestInfo(@, request'[t], args[t].content), e)]
          /\ raised' = [raised EXCEPT ![t] = e]
          /\ client_session_' = cs
          /\ cookies_' = ClearedForRetry(cookies_)
          /\ received' = received
          /\ pc' = [pc EXCEPT ![t] = "mh_fin"]
     \/ \E r \in Responses :
          /\ client_session_' = "connected"
          /\ raised' = raised
          /\ received' = [received EXCEPT ![t] = Append(@, r)]
          /\ result' = [result EXCEPT ![t] =
               Received(@, request'[t], args[t].content, r,
                        AfterRetryResponse(r.status))]
          /\ cookies_' = StoreCookies(ClearedForRetry(cookies_), r.cookies)
          /\ pc' = [pc EXCEPT ![t] = AfterRetryResponse(r.status)]
  /\ UNCHANGED <<p_websocket_, locks, args, wsLocals>>

\* A cleanup that clears the cookies of a failed exchange but keeps the
\* connection.
CleanupKeepsSession(res, store, session) ==
  [cookies |-> IF res.status # "OK" THEN {} ELSE store, session |-> session]

\* A cleanup that resets the connection of a failed exchange but keeps the
\* cookies.
CleanupKeepsCookies(res, store, session) ==
  [cookies |-> store,
   session |-> IF res.status # "OK" THEN "disconnected" ELSE session]

\* A cleanup that takes a 401 Unauthorized in the result for a failure.
CleanupOnUnauthorized(res, store, session) ==
  IF res.status # "OK" \/ res.http.response.status = HTTP_UNAUTHORIZED
  THEN [cookies |-> {}, session |-> "disconnected"]
  ELSE [cookies |-> store, session |-> session]

\* What makeHTTPRequest does to the store and the session before returning.
HTTPCleanup(res, store, session) ==
  IF res.status # "OK"
  THEN [cookies |-> {}, session |-> "disconnected"]
  ELSE [cookies |-> store, session |-> session]

\* The end of makeHTTPRequest: clean up after a failure, release the lock
\* and return the result.
MH_Fin(t) ==
  /\ At(t, "mh_fin")
  /\ applied' = applied
  /\ cookies_' = HTTPCleanup(result[t], cookies_, client_session_).cookies
  /\ client_session_' = HTTPCleanup(result[t], cookies_, client_session_).session
  /\ http_mutex_' = Unlock(t, result[t])
  /\ pc' = [pc EXCEPT ![t] = "done"]
  /\ UNCHANGED <<p_websocket_, websocket_mutex_, args, request, result,
                 wsLocals, sent, received, raised>>

\* --------------------------------------------------------- webSocketConnect
\* ScopedLock<Mutex> lock(http_mutex_), then the upgrade request is built
\* from the cookie store.
WC_Lock(t) ==
  /\ At(t, "wc_lock")
  /\ applied' = applied
  /\ HTTPLockFree
  /\ http_mutex_' = t
  /\ request' = [request EXCEPT ![t] = BuildUpgradeRequest(cookies_)]
  /\ pc' = [pc EXCEPT ![t] = "wc_open"]
  /\ UNCHANGED <<shared, websocket_mutex_, args, result, wsLocals, sent, received, raised>>

\* The response of a completed upgrade handshake.
UpgradeResponse ==
  [status |-> HTTP_SWITCHING_PROTOCOLS, cookies |-> << >>, content |-> ""]

\* The try block of webSocketConnect: new WebSocket(...) sends the upgrade
\* request and either throws, leaving the handle as it was, or yields the
\* handle that is assigned to p_websocket_.
WC_Open(t) ==
  /\ At(t, "wc_open")
  /\ applied' = applied
  /\ sent' = [sent EXCEPT ![t] = Append(@, Wire(request[t], cookies_))]
  /\ \/ \E e \in WSExceptions, cs \in {"connected", "disconnected"} :
          /\ result' = [result EXCEPT ![t] =
               CatchWS(addHTTPRequestInfo(@, request[t], ""), e)]
          /\ raised' = [raised EXCEPT ![t] = e]
          /\ client_session_' = cs
          /\ p_websocket_' = p_websocket_
     \/ /\ p_websocket_' = OpenHandle
        /\ client_session_' = "disconnected"
        /\ raised' = raised
        /\ result' = [result EXCEPT ![t] =
             [addHTTPResponseInfo(addHTTPRequestInfo(@, request[t], ""),
                                  UpgradeResponse, "")
                EXCEPT !.status = "OK"]]
  /\ pc' = [pc EXCEPT ![t] = "wc_fin"]
  /\ UNCHANGED <<cookies_, locks, args, request, wsLocals, received>>

\* A check that resets the session whatever the status.
AlwaysReset(res, session) == "disconnected"

\* The session after the check that ends webSocketConnect and
\* webSocketRecieveFrame: reset unless the status is OK.
ResetUnlessOK(res, session) ==
  IF res.status # "OK" THEN "disconnected" ELSE session

\* A check at the end of webSocketConnect that clears the cookies as the
\* check at the end of makeHTTPRequest does.
ConnectClearsCookies(res, store) ==
  IF res.status # "OK" THEN {} ELSE store

\* The cookie store after the check that ends webSocketConnect: the check
\* resets the session and leaves the store alone.
CookiesAfterConnect(res, store) == store

\* The end of webSocketConnect.
WC_Fin(t) ==
  /\ At(t, "wc_fin")
  /\ applied' = applied
  /\ client_session_' = ResetUnlessOK(result[t], client_session_)
  /\ cookies_' = CookiesAfterConnect(result[t], cookies_)
  /\ http_mutex_' = Unlock(t, result[t])
  /\ pc' = [pc EXCEPT ![t] = "done"]
  /\ UNCHANGED <<p_websocket_, websocket_mutex_, args, request, result,
                 wsLocals, sent, received, raised>>

\* ---------------------------------------------------- webSocketRecieveFrame
\* ScopedLock<Mutex> lock(websocket_mutex_).
RF_Lock(t) ==
  /\ At(t, "rf_lock")
  /\ applied' = applied
  /\ WebSocketLockFree
  /\ websocket_mutex_' = t
  /\ pc' = [pc EXCEPT ![t] = "rf_check"]
  /\ UNCHANGED <<shared, http_mutex_, args, request, result, wsLocals, sent, received, raised>>

\* if (!p_websocket_.isNull()) ... else status = WEBSOCKET_NOT_ALLOCATED.
RF_Check(t) ==
  /\ At(t, "rf_check")
  /\ applied' = applied
  /\ IF p_websocket_ # NullHandle
     THEN /\ pc' = [pc EXCEPT ![t] = "rf_recv"]
          /\ result' = result
     ELSE /\ pc' = [pc EXCEPT ![t] = "rf_fin"]
          /\ result' = [result EXCEPT ![t].status = "WEBSOCKET_NOT_ALLOCATED"]
  /\ UNCHANGED <<shared, locks, args, request, wsLocals, sent, received, raised>>

\* A loop test that takes no frame for a PING.
NeverPing(fl) == FALSE

\* A loop test that takes a PONG of the peer for a PING.
IsPingOrPong(fl) == Opcode(fl) \in {FRAME_OP_PING, FRAME_OP_PONG}

\* Whether the loop goes round again: the frame read was a PING.
IsPing(fl) == Opcode(fl) = FRAME_OP_PING

\* The payload handed to the caller: a closing frame's content is cleared.
Delivered(fl, payload) == IF Opcode(fl) = FRAME_OP_CLOSE THEN "" ELSE payload

\* The payloads of the PING frames a call has read.
IsPingFrame(f) == Opcode(f.flags) = FRAME_OP_PING
Pings(t) == SelectSeq(frames[t], IsPingFrame)

\* One round of the loop up to its read: flags = 0, then
\* p_websocket_->receiveFrame throws, or a frame is read into flags and
\* content.  A PING goes on to the reply, a CLOSE to the shutdown, any other
\* frame is the result.
RF_Recv(t) ==
  /\ At(t, "rf_recv")
  /\ applied' = applied
  /\ \/ \E e \in WSExceptions :
          /\ result' = [result EXCEPT ![t] = CatchWS(@, e)]
          /\ raised' = [raised EXCEPT ![t] = e]
          /\ pc' = [pc EXCEPT ![t] = "rf_fin"]
          /\ flags' = [flags EXCEPT ![t] = 0]
          /\ UNCHANGED <<content, frames>>
     \/ \E f \in Frames :
          /\ IsPingFrame(f) => Len(Pings(t)) < MaxPings
          /\ flags' = [flags EXCEPT ![t] = f.flags]
          /\ content' = [content EXCEPT ![t] = f.payload]
          /\ frames' = [frames EXCEPT ![t] = Append(@, f)]
          /\ raised' = raised
          /\ IF IsPing(f.flags)
             THEN /\ pc' = [pc EXCEPT ![t] = "rf_pong"]
                  /\ result' = result
             ELSE IF Opcode(f.flags) = FRAME_OP_CLOSE
             THEN /\ pc' = [pc EXCEPT ![t] = "rf_close"]
                  /\ result' = result
             ELSE /\ pc' = [pc EXCEPT ![t] = "rf_fin"]
                  /\ result' = [result EXCEPT ![t] =
                       [addWebSocketFrameInfo(@, f.flags,
                                              Delivered(f.flags, f.payload))
                          EXCEPT !.status = "OK"]]
  /\ UNCHANGED <<shared, locks, args, request, pongs, sent, received>>

\* The frame sendFrame is given in reply to a PING whose payload is in the
\* buffer.
PongFrame(payload) ==
  [flags |-> FRAME_FLAG_FIN + FRAME_OP_PONG, payload |-> payload]

\* A loop that is left once a PING has been answered.
LeaveAfterPong == "rf_fin"

\* Where the loop goes once a PING has been answered: round again, to the
\* next receiveFrame, as its condition is opcode == FRAME_OP_PING.
AfterPong == "rf_recv"

\* The reply to a PING: p_websocket_->sendFrame(buffer, n, FIN | PONG).
RF_Pong(t) ==
  /\ At(t, "rf_pong")
  /\ applied' = applied
  /\ \/ \E e \in WSExceptions :
          /\ result' = [result EXCEPT ![t] = CatchWS(@, e)]
          /\ raised' = [raised EXCEPT ![t] = e]
          /\ pc' = [pc EXCEPT ![t] = "rf_fin"]
          /\ pongs' = pongs
     \/ /\ pongs' = [pongs EXCEPT ![t] = Append(@, PongFrame(content[t]))]
        /\ pc' = [pc EXCEPT ![t] = AfterPong]
        /\ UNCHANGED <<result, raised>>
  /\ UNCHANGED <<shared, locks, args, request, flags, content, frames, sent,
                 received>>

\* A closing that leaves the handle in place.
KeepHandle(handle) == handle

\* The handle after a closing frame was handled: p_websocket_ = 0.
HandleAfterClose(handle) == NullHandle

\* The closing frame: content.clear(), p_websocket_->shutdown(), which may
\* throw, and p_websocket_ = 0.
RF_Close(t) ==
  /\ At(t, "rf_close")
  /\ applied' = applied
  /\ content' = [content EXCEPT ![t] = Delivered(flags[t], @)]
  /\ \/ \E e \in WSExceptions :
          /\ result' = [result EXCEPT ![t] = CatchWS(@, e)]
          /\ raised' = [raised EXCEPT ![t] = e]
          /\ p_websocket_' = p_websocket_
     \/ /\ p_websocket_' = HandleAfterClose(p_websocket_)
        /\ raised' = raised
        /\ result' = [result EXCEPT ![t] =
             [addWebSocketFrameInfo(@, flags[t], content'[t])
                EXCEPT !.status = "OK"]]
  /\ pc' = [pc EXCEPT ![t] = "rf_fin"]
  /\ UNCHANGED <<cookies_, client_session_, locks, args, request, flags, frames,
                 pongs, sent, received>>

\* The end of webSocketRecieveFrame.
RF_Fin(t) ==
  /\ At(t, "rf_fin")
  /\ applied' = applied
  /\ client_session_' = ResetUnlessOK(result[t], client_session_)
  /\ websocket_mutex_' = Unlock(t, result[t])
  /\ pc' = [pc EXCEPT ![t] = "done"]
  /\ UNCHANGED <<cookies_, p_websocket_, http_mutex_, args, request, result,
                 wsLocals, sent, received, raised>>

\* The caller takes the returned result; the locals of the call are gone.
Return(t) ==
  /\ pc[t] = "done"
  /\ applied' = applied
  /\ pc' = [pc EXCEPT ![t] = "idle"]
  /\ args' = [args EXCEPT ![t] = NoArgs]
  /\ request' = [request EXCEPT ![t] = NoRequest]
  /\ result' = [result EXCEPT ![t] = DefaultResult]
  /\ flags' = [flags EXCEPT ![t] = 0]
  /\ content' = [content EXCEPT ![t] = ""]
  /\ sent' = [sent EXCEPT ![t] = << >>]
  /\ received' = [received EXCEPT ![t] = << >>]
  /\ frames' = [frames EXCEPT ![t] = << >>]
  /\ pongs' = [pongs EXCEPT ![t] = << >>]
  /\ raised' = [raised EXCEPT ![t] = NoException]
  /\ UNCHANGED <<shared, locks>>

\* -------------------------------------------------------------------- Next
Next ==
  \E t \in Threads :
    \/ httpGet(t)
    \/ httpPost(t)
    \/ httpPut(t)
    \/ httpDelete(t)
    \/ CallWebSocketConnect(t)
    \/ CallWebSocketRecieveFrame(t)
    \/ MH_Lock(t)
    \/ MH_Send(t)
    \/ MH_Auth(t)
    \/ MH_Fin(t)
    \/ WC_Lock(t)
    \/ WC_Open(t)
    \/ WC_Fin(t)
    \/ RF_Lock(t)
    \/ RF_Check(t)
    \/ RF_Recv(t)
    \/ RF_Pong(t)
    \/ RF_Close(t)
    \/ RF_Fin(t)
    \/ Return(t)

Spec == Init /\ [][Next]_vars

\* ------------------------------------------ extractAndStoreCookie by itself
\* The method takes any std::string: every string over a letter and the two
\* delimiters, up to the bound.
CookieChars == {"a", "=", ";"}
CookieStrings == UNION {[1..n -> CookieChars] : n \in 0..MaxCookieLen}

\* Cookie stores the method may find.
Stores == {{}, {<<<<"a">>, <<"a">>>>}, {<<<<"a">>, << >>>>, <<<<"=">>, <<"a">>>>}}

\* One call extractAndStoreCookie(cookie_string) on a store.
ExtractCookie(store, cookie_string) ==
  /\ applied' = [fn |-> "extractAndStoreCookie",
                 store |-> store,
                 cookie_string |-> cookie_string,
                 out |-> extractAndStoreCookie(store, cookie_string)]
  /\ UNCHANGED <<shared, locks, pc, args, request, result, wsLocals,
                 sent, received, raised>>

NextCookie == \E store \in Stores, cookie_string \in CookieStrings :
                ExtractCookie(store, cookie_string)

SpecCookie == Init /\ [][NextCookie]_vars

\* ------------------------------------------------------ RWSInterface::TriBool
\* enum Values, with the values the compiler gives the enumerators.
UNKNOWN_VALUE == 0
TRUE_VALUE == 1
FALSE_VALUE == 2
Values == {UNKNOWN_VALUE, TRUE_VALUE, FALSE_VALUE}

\* TriBool() : value(UNKNOWN_VALUE).
TriBoolDefault == UNKNOWN_VALUE

\* TriBool(const bool initial_value).
TriBoolFromBool(initial_value) == IF initial_value THEN TRUE_VALUE ELSE FALSE_VALUE

\* A conversion that takes the enumerator for an integer: non-zero is true.
ToBoolAsInteger(value) == value # 0

\* operator bool() const.
ToBool(value) == value = TRUE_VALUE

\* operator=(const TriBool& other): the value after the assignment, the
\* object's own when it is assigned to itself.
CopyAssign(value, other, same) == IF same THEN value ELSE other

\* operator=(const Values& rhs).
AssignValues(value, rhs) == rhs

\* operator=(const bool& rhs).
AssignBool(value, rhs) == IF rhs THEN TRUE_VALUE ELSE FALSE_VALUE

\* operator==(const TriBool& rhs) with rhs.value, operator==(const Values& rhs).
Equals(value, rhs) == value = rhs

\* operator!=(const TriBool& rhs) with rhs.value, operator!=(const Values& rhs).
NotEquals(value, rhs) == value # rhs

\* toString() const.
toString(value) ==
  IF value = UNKNOWN_VALUE THEN "unknown"
  ELSE IF value = TRUE_VALUE THEN "true" ELSE "false"

\* Two TriBool objects, x and y, and the last operation on one of them:
\* its name, the object it was called on, its argument and what it returned.
Objects == {"x", "y"}
Other(o) == IF o = "x" THEN "y" ELSE "x"
Applied(fn, o, value, arg, out) ==
  [fn |-> fn, this |-> o,
   x |-> IF o = "x" THEN value ELSE applied.x,
   y |-> IF o = "y" THEN value ELSE applied.y,
   arg |-> arg, out |-> out]

\* The client is not called while the TriBool operations are applied.
ClientIdle ==
  UNCHANGED <<shared, locks, pc, args, request, result, wsLocals,
              sent, received, raised>>

Construct(o) ==
  /\ applied' = Applied("TriBool()", o, TriBoolDefault, "none", "none")
  /\ ClientIdle

ConstructFromBool(o, b) ==
  /\ applied' = Applied("TriBool(bool)", o, TriBoolFromBool(b), b, "none")
  /\ ClientIdle

AssignFromBool(o, b) ==
  /\ applied' = Applied("operator=(bool)", o, AssignBool(applied[o], b), b, "none")
  /\ ClientIdle

AssignFromValues(o, v) ==
  /\ applied' = Applied("operator=(Values)", o, AssignValues(applied[o], v), v, "none")
  /\ ClientIdle

AssignFromTriBool(o, src) ==
  /\ applied' = Applied("operator=(TriBool)", o,
                        CopyAssign(applied[o], applied[src], src = o), src, "none")
  /\ ClientIdle

ConvertToBool(o) ==
  /\ applied' = Applied("operator bool", o, applied[o], "none", ToBool(applied[o]))
  /\ ClientIdle

CompareEqual(o) ==
  /\ applied' = Applied("operator==(TriBool)", o, applied[o], Other(o),
                        Equals(applied[o], applied[Other(o)]))
  /\ ClientIdle

CompareEqualValues(o, v) ==
  /\ applied' = Applied("operator==(Values)", o, applied[o], v, Equals(applied[o], v))
  /\ ClientIdle

CompareNotEqual(o) ==
  /\ applied' = Applied("operator!=(TriBool)", o, applied[o], Other(o),
                        NotEquals(applied[o], applied[Other(o)]))
  /\ ClientIdle

CompareNotEqualValues(o, v) ==
  /\ applied' = Applied("operator!=(Values)", o, applied[o], v,
                        NotEquals(applied[o], v))
  /\ ClientIdle

ConvertToString(o) ==
  /\ applied' = Applied("toString", o, applied[o], "none", toString(applied[o]))
  /\ ClientIdle

\* Both objects default-constructed, y last.
InitTriBool ==
  /\ InitClient
  /\ applied = [fn |-> "TriBool()", this |-> "y",
                x |-> TriBoolDefault, y |-> TriBoolDefault,
                arg |-> "none", out |-> "none"]

NextTriBool ==
  \E o \in Objects :
    \/ Construct(o)
    \/ \E b \in BOOLEAN : ConstructFromBool(o, b)
    \/ \E b \in BOOLEAN : AssignFromBool(o, b)
    \/ \E v \in Values : AssignFromValues(o, v)
    \/ \E src \in Objects : AssignFromTriBool(o, src)
    \/ ConvertToBool(o)
    \/ CompareEqual(o)
    \/ \E v \in Values : CompareEqualValues(o, v)
    \/ CompareNotEqual(o)
    \/ \E v \in Values : CompareNotEqualValues(o, v)
    \/ ConvertToString(o)

SpecTriBool == InitTriBool /\ [][NextTriBool]_vars

\* ---------------------------------------------------------------- progress
\* The data the peer and the callers supply has no part in where a call
\* goes next: for progress it is fixed to empty bodies, responses without
\* cookies and one payload, with every method, status code, opcode and
\* exception left open.
LiveData ==
  \A t \in Threads :
    /\ args[t].content = ""
    /\ \A k \in 1..Len(received[t]) : received[t][k].cookies = << >>
    /\ \A k \in 1..Len(frames[t]) : frames[t][k].payload = "hello"

\* Thread t acquires the mutex its method locks.
TakeLock(t) == MH_Lock(t) \/ WC_Lock(t) \/ RF_Lock(t)

\* Thread t takes a step inside the method it called, or returns from it.
InCall(t) ==
  \/ MH_Send(t) \/ MH_Auth(t) \/ MH_Fin(t)
  \/ WC_Open(t) \/ WC_Fin(t)
  \/ RF_Check(t) \/ RF_Recv(t) \/ RF_Pong(t) \/ RF_Close(t) \/ RF_Fin(t)
  \/ Return(t)

NextLive ==
  \E t \in Threads :
    \/ httpGet(t) /\ LiveData'
    \/ httpPost(t) /\ LiveData'
    \/ httpPut(t) /\ LiveData'
    \/ httpDelete(t) /\ LiveData'
    \/ CallWebSocketConnect(t) /\ LiveData'
    \/ CallWebSocketRecieveFrame(t) /\ LiveData'
    \/ MH_Lock(t) /\ LiveData'
    \/ MH_Send(t) /\ LiveData'
    \/ MH_Auth(t) /\ LiveData'
    \/ MH_Fin(t) /\ LiveData'
    \/ WC_Lock(t) /\ LiveData'
    \/ WC_Open(t) /\ LiveData'
    \/ WC_Fin(t) /\ LiveData'
    \/ RF_Lock(t) /\ LiveData'
    \/ RF_Check(t) /\ LiveData'
    \/ RF_Recv(t) /\ LiveData'
    \/ RF_Pong(t) /\ LiveData'
    \/ RF_Close(t) /\ LiveData'
    \/ RF_Fin(t) /\ LiveData'
    \/ Return(t) /\ LiveData'

\* A thread inside a method keeps running: every transport call returns or
\* throws (the receive timeout of the WebSocket is 60 s, the session has its
\* own timeout), so its steps are fair; they are strongly fair because the
\* instant of another thread's return holds them up for that instant only.
\* A thread waiting for a mutex gets it if it is free again and again.
FairSpec ==
  /\ Init /\ [][NextLive]_vars
  /\ \A t \in Threads :
       /\ SF_vars(InCall(t) /\ LiveData')
       /\ SF_vars(TakeLock(t) /\ LiveData')

\* ================================================================== claims
FailureStatuses ==
  {"EXCEPTION_POCO_TIMEOUT", "EXCEPTION_POCO_NET", "EXCEPTION_POCO_WEBSOCKET"}

\* Thread t is in the state in which its call of op returned.
Returned(t, op) == pc[t] = "done" /\ args[t].op = op

\* The status that names the kind of an exception.
StatusOf(e) ==
  CASE e.kind = "Timeout" -> "EXCEPTION_POCO_TIMEOUT"
    [] e.kind = "WebSocket" -> "EXCEPTION_POCO_WEBSOCKET"
    [] e.kind = "Net" -> "EXCEPTION_POCO_NET"

Last(q) == q[Len(q)]

\* C1: a makeHTTPRequest call sends at most two requests; the second one is
\* sent exactly when the first response is 401 Unauthorized and it carries
\* the digest credentials, the first one carries none; a second 401 is not
\* answered by a third request.
C1_SingleRetry ==
  \A t \in Threads :
    args[t].op = "makeHTTPRequest" =>
      /\ Len(sent[t]) <= 2
      /\ Len(received[t]) <= Len(sent[t])
      /\ Len(sent[t]) >= 1 => ~sent[t][1].req.auth
      /\ Len(sent[t]) = 2 =>
           /\ received[t][1].status = HTTP_UNAUTHORIZED
           /\ sent[t][2].req.auth
      /\ pc[t] = "done" =>
           /\ Len(sent[t]) >= 1
           /\ (Len(sent[t]) = 2) <=>
                (Len(received[t]) >= 1 /\ received[t][1].status = HTTP_UNAUTHORIZED)

\* C1 witness: an exchange returned whose retry was answered with 401 too.
C1_Witness ==
  \E t \in Threads :
    /\ Returned(t, "makeHTTPRequest")
    /\ Len(received[t]) = 2
    /\ received[t][2].status = HTTP_UNAUTHORIZED
    /\ Len(sent[t]) = 2

\* C2: every request put on the wire (first request, digest-auth retry,
\* WebSocket upgrade) carries exactly the cookies the store holds at the
\* moment it is sent.
C2_CookiesEqualStore ==
  \A t \in Threads :
    \A i \in 1..Len(sent[t]) : sent[t][i].req.cookies = sent[t][i].store

\* C3: an HTTP exchange that ends with a timeout or network exception, on
\* the first send or during the retry, returns the matching error status with
\* the exception text, and returns with the cookie store empty and the
\* connection reset.
C3_FailureCleansUp ==
  \A t \in Threads :
    Returned(t, "makeHTTPRequest") =>
      /\ (raised[t] = NoException) <=> (result[t].status = "OK")
      /\ raised[t] # NoException =>
           /\ result[t].status = StatusOf(raised[t])
           /\ result[t].status \in {"EXCEPTION_POCO_TIMEOUT", "EXCEPTION_POCO_NET"}
           /\ result[t].exception_message = raised[t].text
           /\ cookies_ = {}
           /\ client_session_ = "disconnected"

\* C3 witness: an exchange that had cookies to send timed out during its
\* retry.
C3_Witness ==
  \E t \in Threads :
    /\ Returned(t, "makeHTTPRequest")
    /\ raised[t] = TimeoutException
    /\ Len(sent[t]) = 2
    /\ sent[t][1].req.cookies # {}

\* C4, as claimed: after any operation returns TIMEOUT, NETWORK_ERROR or
\* WEBSOCKET_ERROR the cookie store is empty.
C4_AnyFailureEmptiesStore ==
  \A t \in Threads :
    (pc[t] = "done" /\ result[t].status \in FailureStatuses) => cookies_ = {}

WebSocketLabels ==
  {"wc_lock", "wc_open", "wc_fin", "rf_lock", "rf_check", "rf_recv", "rf_pong",
   "rf_close", "rf_fin"}

\* C4, amended: an HTTP exchange that returns a failure status returns with
\* the cookie store empty, and the first request of every exchange carries
\* exactly the store's cookies, so none from before the failure; no step of
\* webSocketConnect or webSocketRecieveFrame, failing or not, changes the
\* cookie store.
C4_HTTPFailureEmptiesStore ==
  [][\A t \in Threads :
       /\ (pc[t] = "mh_fin" /\ pc'[t] = "done"
             /\ result'[t].status \in FailureStatuses) => cookies_' = {}
       /\ (pc[t] = "mh_lock" /\ pc'[t] = "mh_send") =>
             request'[t].cookies = cookies_'
       /\ (pc[t] = "mh_send" /\ pc'[t] # pc[t]) =>
             Last(sent'[t]).req.cookies = cookies_
       /\ (pc[t] \in WebSocketLabels /\ pc'[t] # pc[t]) => cookies_' = cookies_
    ]_vars

\* C4 witness: an HTTP exchange that was sent with cookies returned a failure.
C4_Witness ==
  \E t \in Threads :
    /\ Returned(t, "makeHTTPRequest")
    /\ result[t].status \in FailureStatuses
    /\ sent[t][1].req.cookies # {}
    /\ cookies_ = {}

\* C5, as claimed: a Result of makeHTTPRequest whose status is not OK holds
\* no response data: status code, header text and body are as constructed.
C5_NoResponseDataOnFailure ==
  \A t \in Threads :
    (Returned(t, "makeHTTPRequest") /\ result[t].status # "OK") =>
      result[t].http.response = DefaultResult.http.response

\* C5, amended: a failed Result holds no response data when the first
\* send/receive failed; when the retry failed it holds the status code (401),
\* header text and body of the first response.
C5_OnlyFirstResponseOnFailure ==
  \A t \in Threads :
    (Returned(t, "makeHTTPRequest") /\ result[t].status # "OK") =>
      IF received[t] = << >>
      THEN result[t].http.response = DefaultResult.http.response
      ELSE /\ Len(received[t]) = 1
           /\ Len(sent[t]) = 2
           /\ result[t].http.response =
                [status |-> HTTP_UNAUTHORIZED,
                 header_info |-> received[t][1].cookies,
                 content |-> received[t][1].content]

\* C5 witness: the retry of an exchange failed after a first 401 was read.
C5_Witness ==
  \E t \in Threads :
    /\ Returned(t, "makeHTTPRequest")
    /\ result[t].status = "EXCEPTION_POCO_NET"
    /\ Len(received[t]) = 1
    /\ result[t].http.response.content # ""

\* The FIN bit of a frame's flags.
HasFin(fl) == (fl \div FRAME_FLAG_FIN) % 2 = 1

\* C6: webSocketRecieveFrame never returns a PING; the PONGs a call has sent
\* answer, in order, the PINGs it has read, each with the PING's payload and
\* the FIN flag, and whenever the call is about to read a frame, or returns
\* OK, every PING read so far has its PONG; the call then returns the
\* non-PING frame that ended the loop, with its payload.
C6_PingsAnsweredNotReturned ==
  \A t \in Threads :
    /\ Opcode(result[t].websocket.flags) # FRAME_OP_PING
    /\ Len(pongs[t]) <= Len(Pings(t))
    /\ Len(Pings(t)) <= Len(pongs[t]) + 1
    /\ \A i \in 1..Len(pongs[t]) :
         /\ pongs[t][i].payload = Pings(t)[i].payload
         /\ Opcode(pongs[t][i].flags) = FRAME_OP_PONG
         /\ HasFin(pongs[t][i].flags)
    /\ pc[t] = "rf_recv" => Len(pongs[t]) = Len(Pings(t))
    /\ (Returned(t, "webSocketRecieveFrame") /\ result[t].status = "OK") =>
         /\ Len(pongs[t]) = Len(Pings(t))
         /\ Len(frames[t]) = Len(Pings(t)) + 1
         /\ result[t].websocket.flags = Last(frames[t]).flags
         /\ Opcode(Last(frames[t]).flags) # FRAME_OP_CLOSE =>
              result[t].websocket.frame_content = Last(frames[t]).payload

\* C6 witness: a call read MaxPings PINGs and then a TEXT frame "hello", and
\* returned that frame.
C6_Witness ==
  \E t \in Threads :
    /\ Returned(t, "webSocketRecieveFrame")
    /\ result[t].status = "OK"
    /\ Len(Pings(t)) = MaxPings
    /\ Len(pongs[t]) = MaxPings
    /\ Opcode(result[t].websocket.flags) = FRAME_OP_TEXT
    /\ result[t].websocket.frame_content = "hello"

\* The call of thread t has read a CLOSE frame (its first non-PING frame).
ReadClose(t) ==
  /\ args[t].op = "webSocketRecieveFrame"
  /\ frames[t] # << >>
  /\ Opcode(Last(frames[t]).flags) = FRAME_OP_CLOSE

C8_ErrorReleasesHandle ==
  \A t \in Threads :
    (Returned(t, "webSocketRecieveFrame") /\ raised[t] # NoException) =>
      /\ p_websocket_ = NullHandle
      /\ client_session_ = "disconnected"

\* C9: a webSocketRecieveFrame that finds no handle returns
\* WEBSOCKET_NOT_ALLOCATED and none of its steps reads or sends a frame or
\* changes the connection or the handle.
C9_NotAllocatedTouchesNothing ==
  [][\A t \in Threads :
       (pc[t] \in {"rf_check", "rf_fin"} /\ pc'[t] # pc[t]
          /\ result'[t].status = "WEBSOCKET_NOT_ALLOCATED") =>
         /\ client_session_' = client_session_
         /\ p_websocket_' = p_websocket_
         /\ frames'[t] = << >>
         /\ pongs'[t] = << >>
    ]_vars

\* Where a thread is about to read or write the WebSocket handle, and where
\* it is about to write the cookie store.
HandleAccess == {"wc_open", "rf_check", "rf_recv", "rf_pong", "rf_close"}
CookieWrite == {"mh_auth", "mh_fin"}

\* C10: the handle is read and written only by the holder of
\* websocket_mutex_ and the cookie store written only by the holder of
\* http_mutex_, so a webSocketConnect is never at its write of the handle
\* while a webSocketRecieveFrame is at an access of it.
C10_EachUnderItsOwnLock ==
  /\ \A t \in Threads :
       /\ pc[t] \in HandleAccess => websocket_mutex_ = t
       /\ pc[t] \in CookieWrite => http_mutex_ = t
  /\ \A t, u \in Threads :
       ~(pc[t] = "wc_open" /\ pc[u] \in HandleAccess \ {"wc_open"})

\* C11: a webSocketConnect that fails (timeout, handshake or network error)
\* returns the error status with the connection reset and with no handle
\* retained, also when a handle of an earlier connect was still allocated.
C11_FailedConnectRetainsNoHandle ==
  \A t \in Threads :
    (Returned(t, "webSocketConnect") /\ raised[t] # NoException) =>
      /\ result[t].status = StatusOf(raised[t])
      /\ client_session_ = "disconnected"
      /\ p_websocket_ = NullHandle

\* The labels at which a thread is inside the HTTP exchange or the upgrade
\* (the domain of http_mutex_), and inside the receive loop (the domain of
\* websocket_mutex_).
HTTPSection == {"mh_send", "mh_auth", "mh_fin", "wc_open", "wc_fin"}
ReceiveSection == {"rf_check", "rf_recv", "rf_pong", "rf_close", "rf_fin"}

\* C12: calls of one lock domain never overlap: at most one thread is
\* inside an HTTP exchange (first request and retry), at most one inside
\* the receive loop, each the owner of the mutex of its domain, and a
\* second caller stays in front of the lock for as long.
C12_NoOverlapWithinDomain ==
  /\ \A t, u \in Threads :
       /\ (pc[t] \in HTTPSection /\ pc[u] \in HTTPSection) => t = u
       /\ (pc[t] \in ReceiveSection /\ pc[u] \in ReceiveSection) => t = u
  /\ \A t \in Threads :
       /\ pc[t] \in HTTPSection <=> http_mutex_ = t
       /\ pc[t] \in ReceiveSection <=> websocket_mutex_ = t
       /\ (pc[t] \in {"mh_lock", "wc_lock"} /\ http_mutex_ # NoThread) =>
            ~ENABLED (MH_Lock(t) \/ WC_Lock(t))
       /\ (pc[t] = "rf_lock" /\ websocket_mutex_ # NoThread) =>
            ~ENABLED RF_Lock(t)

\* C12 witness: one thread is inside the retry of an exchange while the
\* other has called makeHTTPRequest and waits in front of the lock.
C12_Witness ==
  \E t, u \in Threads :
    /\ pc[t] = "mh_auth"
    /\ http_mutex_ = t
    /\ pc[u] = "mh_lock"

\* C13: the two domains do not block each other: while a thread is inside
\* the receive loop, every step of another thread's makeHTTPRequest, the
\* acquisition of a free http_mutex_ included, can be taken, and so can
\* every step of a receive while another thread is inside an exchange.
C13_DomainsRunConcurrently ==
  \A t, u \in Threads :
    /\ (pc[t] \in ReceiveSection /\ ~Returning) =>
         /\ (pc[u] = "mh_lock" /\ http_mutex_ = NoThread) => ENABLED MH_Lock(u)
         /\ pc[u] = "mh_send" => ENABLED MH_Send(u)
         /\ pc[u] = "mh_auth" => ENABLED MH_Auth(u)
         /\ pc[u] = "mh_fin" => ENABLED MH_Fin(u)
    /\ (pc[t] \in {"mh_send", "mh_auth", "mh_fin"} /\ ~Returning) =>
         /\ (pc[u] = "rf_lock" /\ websocket_mutex_ = NoThread) => ENABLED RF_Lock(u)
         /\ pc[u] = "rf_check" => ENABLED RF_Check(u)
         /\ pc[u] = "rf_recv" => ENABLED RF_Recv(u)
         /\ pc[u] = "rf_pong" => ENABLED RF_Pong(u)
         /\ pc[u] = "rf_close" => ENABLED RF_Close(u)
         /\ pc[u] = "rf_fin" => ENABLED RF_Fin(u)

\* C13 witness: a makeHTTPRequest has returned OK while the other thread is
\* inside the receive loop, waiting for a frame with a PING already read.
C13_Witness ==
  \E t, u \in Threads :
    /\ pc[t] = "rf_recv"
    /\ websocket_mutex_ = t
    /\ frames[t] # << >>
    /\ Returned(u, "makeHTTPRequest")
    /\ result[u].status = "OK"

\* The name/value pairs a cookie string "name=value; attributes" carries:
\* the text in front of its first '=' and the text between that '=' and its
\* first ';'; none for a string without the one or the other.
PairsOf(s) ==
  {<<SubSeq(s, 1, ij[1] - 1), SubSeq(s, ij[1] + 1, ij[2] - 1)>> :
     ij \in {p \in (1..Len(s)) \X (1..Len(s)) :
               /\ p[1] < p[2]
               /\ s[p[1]] = "=" /\ \A k \in 1..(p[1] - 1) : s[k] # "="
               /\ s[p[2]] = ";" /\ \A k \in 1..(p[2] - 1) : s[k] # ";"}}

\* The pairs of all the cookie strings of a response.
PairsOfAll(cookie_strings) ==
  UNION {PairsOf(cookie_strings[k]) : k \in 1..Len(cookie_strings)}

\* C14: when the retry after a 401 has been answered, the exchange returns
\* OK with the status of the second response, and the cookie store holds
\* exactly the name/value pairs of the cookies of the second response, none
\* of the cookies held before.
C14_StoreIsRetryCookies ==
  \A t \in Threads :
    (Returned(t, "makeHTTPRequest") /\ Len(received[t]) = 2) =>
      /\ cookies_ = PairsOfAll(received[t][2].cookies)
      /\ result[t].status = "OK"
      /\ result[t].http.response.status = received[t][2].status

\* C14 witness: from a store holding the cookies of an earlier exchange, a
\* 401 and then a 200 carrying the cookie A=1 return OK, status 200, with the
\* store holding A -> 1 and nothing else.
C14_Witness ==
  \E t \in Threads :
    /\ Returned(t, "makeHTTPRequest")
    /\ request[t].cookies = {<<<<"C">>, <<"3">>>>}
    /\ Len(received[t]) = 2
    /\ received[t][1].status = HTTP_UNAUTHORIZED
    /\ received[t][2].status = HTTP_OK
    /\ received[t][2].cookies = <<CookieA>>
    /\ result[t].status = "OK"
    /\ result[t].http.response.status = HTTP_OK
    /\ cookies_ = {<<<<"A">>, <<"1">>>>}

\* C15: a retry answered with 401 is not a failure: the exchange returns OK
\* with the metadata of the second response, status 401, in http.response,
\* and its last step clears no cookie and leaves the connection as it is.
C15_SecondUnauthorizedIsOK ==
  [][\A t \in Threads :
       (pc[t] = "mh_fin" /\ pc'[t] = "done" /\ Len(received[t]) = 2
          /\ received[t][2].status = HTTP_UNAUTHORIZED) =>
         /\ result'[t].status = "OK"
         /\ result'[t].exception_message = ""
         /\ result'[t].http.response =
              [status |-> HTTP_UNAUTHORIZED,
               header_info |-> received[t][2].cookies,
               content |-> received[t][2].content]
         /\ cookies_' = cookies_
         /\ cookies_' = PairsOfAll(received[t][2].cookies)
         /\ client_session_' = client_session_
    ]_vars

\* C15 witness: an exchange returned whose two responses were both 401, with
\* the cookies of the second one in the store and the connection up.
C15_Witness ==
  \E t \in Threads :
    /\ Returned(t, "makeHTTPRequest")
    /\ Len(received[t]) = 2
    /\ received[t][1].status = HTTP_UNAUTHORIZED
    /\ received[t][2].status = HTTP_UNAUTHORIZED
    /\ result[t].status = "OK"
    /\ cookies_ # {}
    /\ client_session_ = "connected"

\* C16: a webSocketConnect that fails returns with the cookie store as it
\* was when the call built its upgrade request.
C16_FailedConnectKeepsCookies ==
  \A t \in Threads :
    (Returned(t, "webSocketConnect") /\ result[t].status # "OK") =>
      /\ result[t].status \in FailureStatuses
      /\ cookies_ = request[t].cookies

\* C16 witness: a connect has failed with cookies in the store.
C16_Witness ==
  \E t \in Threads :
    /\ Returned(t, "webSocketConnect")
    /\ result[t].status \in FailureStatuses
    /\ request[t].cookies # {}
    /\ cookies_ # {}

\* A sub-record of a result is populated when it is not as constructed.
HTTPPopulated(res) == res.http # DefaultResult.http
WebSocketPopulated(res) == res.websocket # DefaultResult.websocket

\* C17: every returned result, whatever its status, has exactly one of its
\* http and websocket sub-records populated: http for makeHTTPRequest,
\* websocket for webSocketRecieveFrame.
C17_ExactlyOnePopulated ==
  \A t \in Threads :
    pc[t] = "done" =>
      /\ HTTPPopulated(result[t]) # WebSocketPopulated(result[t])
      /\ args[t].op = "makeHTTPRequest" => HTTPPopulated(result[t])
      /\ args[t].op = "webSocketRecieveFrame" => WebSocketPopulated(result[t])

\* C17, amended: no returned result has both sub-records populated; the
\* results of makeHTTPRequest and webSocketConnect have http populated (the
\* request at least); a result of webSocketRecieveFrame has http as
\* constructed, and websocket populated exactly when its status is OK.
C17_AtMostOnePopulated ==
  \A t \in Threads :
    pc[t] = "done" =>
      /\ ~(HTTPPopulated(result[t]) /\ WebSocketPopulated(result[t]))
      /\ args[t].op \in {"makeHTTPRequest", "webSocketConnect"} =>
           /\ HTTPPopulated(result[t])
           /\ result[t].http.request.method # ""
      /\ args[t].op = "webSocketRecieveFrame" =>
           (WebSocketPopulated(result[t]) <=> result[t].status = "OK")

\* C17 witness: a receive has returned with a failure status and neither
\* sub-record populated.
C17_Witness ==
  \E t \in Threads :
    /\ Returned(t, "webSocketRecieveFrame")
    /\ result[t].status \in FailureStatuses \cup {"WEBSOCKET_NOT_ALLOCATED"}
    /\ ~HTTPPopulated(result[t])
    /\ ~WebSocketPopulated(result[t])

\* C18: no webSocketRecieveFrame returns a PONG frame of the peer to its
\* caller.
C18_PongNeverReturned ==
  \A t \in Threads :
    (Returned(t, "webSocketRecieveFrame") /\ result[t].status = "OK") =>
      Opcode(result[t].websocket.flags) \notin {FRAME_OP_PING, FRAME_OP_PONG}

\* C18, amended: a PONG frame of the peer ends the loop like a data frame:
\* the call that read it returns OK with the flags and the payload of that
\* frame, and has sent no reply to it.
C18_PongReturnedAsRead ==
  \A t \in Threads :
    (Returned(t, "webSocketRecieveFrame") /\ frames[t] # << >>
       /\ Opcode(Last(frames[t]).flags) = FRAME_OP_PONG) =>
      /\ result[t].status = "OK"
      /\ result[t].websocket = [flags |-> Last(frames[t]).flags,
                                frame_content |-> Last(frames[t]).payload]
      /\ Len(pongs[t]) = Len(Pings(t))

\* C18 witness: a receive has returned OK with a PONG frame in the result.
C18_Witness ==
  \E t \in Threads :
    /\ Returned(t, "webSocketRecieveFrame")
    /\ result[t].status = "OK"
    /\ Opcode(result[t].websocket.flags) = FRAME_OP_PONG
    /\ result[t].websocket.frame_content = "hello"

\* Position of the first c in s.
HasChar(s, c) == \E i \in 1..Len(s) : s[i] = c
FirstChar(s, c) ==
  CHOOSE i \in 1..Len(s) : s[i] = c /\ \A j \in 1..(i - 1) : s[j] # c

C20_DataFrameReturnedAsIs ==
  [][\A t \in Threads :
       (/\ pc[t] \in {"rf_recv", "rf_fin"}
        /\ pc'[t] \in {"rf_fin", "done"}
        /\ pc'[t] # pc[t]
        /\ frames'[t] # << >>
        /\ Opcode(Last(frames'[t]).flags) \notin {FRAME_OP_CLOSE, FRAME_OP_PING}) =>
         /\ result'[t].status = "OK"
         /\ result'[t].websocket = [flags |-> Last(frames'[t]).flags,
                                    frame_content |-> Last(frames'[t]).payload]
         /\ p_websocket_ = OpenHandle
         /\ p_websocket_' = OpenHandle
         /\ cookies_' = cookies_
         /\ client_session_' = client_session_
    ]_vars

\* C20 witness: a receive has returned the TEXT frame "hello" after a PING,
\* with the handle allocated, cookies in the store and the connection up.
C20_Witness ==
  \E t \in Threads :
    /\ Returned(t, "webSocketRecieveFrame")
    /\ result[t].status = "OK"
    /\ Len(frames[t]) = 2
    /\ result[t].websocket = [flags |-> FRAME_FLAG_FIN + FRAME_OP_TEXT,
                              frame_content |-> "hello"]
    /\ p_websocket_ = OpenHandle
    /\ cookies_ # {}
    /\ client_session_ = "connected"

\* C21: every request makeHTTPRequest puts on the wire has Content-Length
\* equal to the length of the body, and has the form content type exactly
\* when the method is POST or the body is not empty, no content type
\* otherwise.
C21_ContentHeaders ==
  \A t \in Threads :
    args[t].op = "makeHTTPRequest" =>
      \A k \in 1..Len(sent[t]) :
        /\ sent[t][k].req.method = args[t].method
        /\ sent[t][k].req.contentLength = Len(args[t].content)
        /\ IF args[t].method = "POST" \/ args[t].content # ""
           THEN sent[t][k].req.contentType = "application/x-www-form-urlencoded"
           ELSE sent[t][k].req.contentType = ""

\* C21 witness: a PUT with a body went out with the form content type and
\* the length of the body, first and again as the retry.
C21_Witness ==
  \E t \in Threads :
    /\ args[t].method = "PUT"
    /\ args[t].content = "x=1"
    /\ Len(sent[t]) = 2
    /\ sent[t][2].req.contentType = "application/x-www-form-urlencoded"
    /\ sent[t][2].req.contentLength = 3

\* C22: the connection is reset only by a thread that owns http_mutex_, so
\* no thread resets it while another thread is inside an HTTP exchange,
\* between its first response and its retry, or inside webSocketConnect.
C22_ResetOnlyUnderHTTPLock ==
  [][\A t \in Threads :
       (pc[t] \in {"mh_fin", "wc_fin", "rf_fin"} /\ pc'[t] = "done"
          /\ result[t].status # "OK") =>
         /\ http_mutex_ = t
         /\ \A u \in Threads \ {t} : pc[u] \notin {"mh_auth", "wc_open"}
    ]_vars

\* C23: the cookie store changes only in authenticate, entered after a
\* first response of 401, and in the cleanup of a failed exchange, which
\* empties it; an exchange whose first response is not 401 and that raised
\* nothing returns OK with the store as it was when the request was built,
\* whatever cookies the response carries.
C23_StoreChangesOnlyOnRetryOrFailure ==
  [][/\ cookies_' # cookies_ =>
          \E t \in Threads :
            \/ /\ pc[t] = "mh_auth"
               /\ Len(received[t]) = 1
               /\ received[t][1].status = HTTP_UNAUTHORIZED
            \/ /\ pc[t] = "mh_fin"
               /\ result[t].status # "OK"
               /\ cookies_' = {}
     /\ \A t \in Threads :
          (pc[t] = "mh_fin" /\ pc'[t] = "done" /\ Len(received[t]) = 1
             /\ raised[t] = NoException) =>
            /\ received[t][1].status # HTTP_UNAUTHORIZED
            /\ result'[t].status = "OK"
            /\ cookies_' = request[t].cookies
    ]_vars

\* C23 witness: an exchange answered 200 with the cookie A=1 has returned
\* with the store still holding C -> 3 only.
C23_Witness ==
  \E t \in Threads :
    /\ Returned(t, "makeHTTPRequest")
    /\ Len(received[t]) = 1
    /\ received[t][1].status = HTTP_OK
    /\ received[t][1].cookies = <<CookieA>>
    /\ result[t].status = "OK"
    /\ request[t].cookies = {<<<<"C">>, <<"3">>>>}
    /\ cookies_ = {<<<<"C">>, <<"3">>>>}

\* The labels at which a thread waits for a mutex.
LockWait == {"mh_lock", "wc_lock", "rf_lock"}

C26_TriBool ==
  LET this == applied[applied.this]
      fn == applied.fn
  IN  /\ applied.x \in Values /\ applied.y \in Values
      /\ fn = "TriBool()" => this = UNKNOWN_VALUE
      /\ fn \in {"TriBool(bool)", "operator=(bool)"} =>
           /\ this = (IF applied.arg THEN TRUE_VALUE ELSE FALSE_VALUE)
           /\ this # UNKNOWN_VALUE
           /\ ToBool(this) = applied.arg
      /\ fn = "operator bool" =>
           /\ applied.out = (this = TRUE_VALUE)
           /\ this \in {UNKNOWN_VALUE, FALSE_VALUE} => applied.out = FALSE
      /\ fn = "operator==(TriBool)" => applied.out = (applied.x = applied.y)
      /\ fn = "operator!=(TriBool)" => applied.out = (applied.x # applied.y)
      /\ fn = "operator==(Values)" => applied.out = (this = applied.arg)
      /\ fn = "operator!=(Values)" => applied.out = (this # applied.arg)
      /\ Equals(applied.x, applied.y) = ~NotEquals(applied.x, applied.y)
      /\ \A v \in Values : Equals(this, v) = ~NotEquals(this, v)

\* C26 witness: a TriBool assigned from false, with the other one still
\* unknown, has been converted to bool and gave false.
C26_Witness ==
  /\ applied.fn = "operator bool"
  /\ applied[applied.this] = FALSE_VALUE
  /\ applied[Other(applied.this)] = UNKNOWN_VALUE
  /\ applied.out = FALSE

====
